---------------------------- MODULE Spec2Model ----------------------------
(***************************************************************************)
(* SKarma: karma ranges (skarma/karma_config_parser.py) and the bot's      *)
(* startup sequence (skarma/main.py).                                      *)
(*                                                                         *)
(* Configuration values are modelled as Python sees them: a value of       *)
(* karma.conf is a string, here a sequence of one-character strings, and   *)
(* int(), _read_int_or_inf() and the timeout parsing turn it into a number *)
(* character by character.  A float that may be infinite is a record       *)
(* [inf |-> -1 | 0 | 1, n |-> Int]; a timedelta is its number of seconds.  *)
(***************************************************************************)
EXTENDS Integers, Sequences, FiniteSets, TLC

\* ------------------------------------------------------------------ bounds
\* Sections (other than DEFAULT) in one karma.conf.
MaxSections == 3
\* Length the class-level list `ranges` may grow to over repeated attempts.
MaxRanges == 3
\* Karma values looked up: the multiples of 5 from -5*MaxKarma to 5*MaxKarma
\* (and -9, 9 and 10^9, see KarmaValues).
MaxKarma == 4
\* Keys that may be absent at once from a section handed to the parser.
MaxMissing == 1

\* ------------------------------------------------------- Python values
Fin(n) == [inf |-> 0, n |-> n]
PosInf == [inf |-> 1, n |-> 0]
NegInf == [inf |-> -1, n |-> 0]

\* a < b on floats that may be infinite
FloatLt(a, b) ==
    \/ a.inf < b.inf
    \/ a.inf = 0 /\ b.inf = 0 /\ a.n < b.n

\* a <= b on floats that may be infinite
FloatLe(a, b) == ~FloatLt(b, a)

PyNone == [isNone |-> TRUE, n |-> 0]
PyInt(n) == [isNone |-> FALSE, n |-> n]

NoExc == [type |-> "None", msg |-> <<>>]
Raise(type, msg) == [type |-> type, msg |-> msg]

\* the element of a one-element set: Only({ F(x) : x \in {e} }) is F(e),
\* with e evaluated once
Only(S) == CHOOSE v \in S : TRUE

\* the characters of a string as one string, for messages
RECURSIVE Join(_)
Join(s) == IF s = <<>> THEN "" ELSE Head(s) \o Join(Tail(s))

\* ---------------------------------------------------------------- int()
Digits == <<"0", "1", "2", "3", "4", "5", "6", "7", "8", "9">>

IsDigit(c) == \E i \in 1..Len(Digits) : Digits[i] = c

DigitVal(c) == (CHOOSE i \in 1..Len(Digits) : Digits[i] = c) - 1

RECURSIVE DigitsVal(_)
DigitsVal(s) ==
    IF s = <<>> THEN 0
    ELSE DigitsVal(SubSeq(s, 1, Len(s) - 1)) * 10 + DigitVal(s[Len(s)])

AllDigits(s) == s # <<>> /\ \A i \in 1..Len(s) : IsDigit(s[i])

\* int(s): [ok, n]; not ok is ValueError
PyIntOf(s) ==
    IF s # <<>> /\ s[1] \in {"-", "+"}
    THEN IF AllDigits(Tail(s))
         THEN [ok |-> TRUE,
               n |-> IF s[1] = "-" THEN 0 - DigitsVal(Tail(s)) ELSE DigitsVal(Tail(s))]
         ELSE [ok |-> FALSE, n |-> 0]
    ELSE IF AllDigits(s)
         THEN [ok |-> TRUE, n |-> DigitsVal(s)]
         ELSE [ok |-> FALSE, n |-> 0]


\* ------------------------------------------- configparser.SectionProxy
\* A section as range_from_parsed_config receives it: its header, its own
\* options and the options of DEFAULT, which configparser falls back to.
Keys == {"name", "range_min", "range_max", "enable_plus", "enable_minus",
         "plus_value", "minus_value", "day_max", "timeout"}

SectionProxy(header, opts, defaults) ==
    [name |-> header, opts |-> opts, defaults |-> defaults]

\* key in parsed
HasOption(parsed, key) == key \in (DOMAIN parsed.opts) \cup (DOMAIN parsed.defaults)

\* parsed[key], for a key that HasOption
GetItem(parsed, key) ==
    IF key \in DOMAIN parsed.opts THEN parsed.opts[key] ELSE parsed.defaults[key]

\* str(KeyError(key))
KeyRepr(key) == "'" \o key \o "'"

InvalidLiteral(tok) == Raise("ValueError", <<"invalid literal for int() with base 10: ", Join(tok)>>)

\* ----------------------------------------------------------- KarmaRange
_read_int_or_inf(from_) ==
    IF from_ = <<"o", "o">> \/ from_ = <<"+", "o", "o">>
    THEN [exc |-> NoExc, val |-> PosInf]
    ELSE IF from_ = <<"-", "o", "o">>
         THEN [exc |-> NoExc, val |-> NegInf]
         ELSE Only({ IF v.ok
                     THEN [exc |-> NoExc, val |-> Fin(v.n)]
                     ELSE [exc |-> InvalidLiteral(from_), val |-> Fin(0)] :
                     v \in { PyIntOf(from_) } })

\* seconds in one unit of a timeout literal, as datetime.timedelta counts them
UnitSecondsSwapped(unit) ==
    CASE unit = "s" -> 1
      [] unit = "m" -> 60
      [] unit = "h" -> 86400
      [] unit = "d" -> 3600
      [] unit = "w" -> 604800

UnitSeconds(unit) ==
    CASE unit = "s" -> 1
      [] unit = "m" -> 60
      [] unit = "h" -> 3600
      [] unit = "d" -> 86400
      [] unit = "w" -> 604800

UnitSymbols == {"s", "m", "h", "d", "w"}

\* lines 82-96: the timeout of a section, read before the try block
ParseTimeout(parsed) ==
    IF ~HasOption(parsed, "timeout")
    THEN [exc |-> Raise("KeyError", <<KeyRepr("timeout")>>), val |-> 0]
    ELSE LET t == GetItem(parsed, "timeout")
             timeout_v == PyIntOf(SubSeq(t, 1, Len(t) - 1))
         IN  IF ~timeout_v.ok
             THEN [exc |-> InvalidLiteral(SubSeq(t, 1, Len(t) - 1)), val |-> 0]
             ELSE LET timeout_s == t[Len(t)]
                  IN  IF timeout_s \in UnitSymbols
                      THEN [exc |-> NoExc, val |-> timeout_v.n * UnitSeconds(timeout_s)]
                      ELSE [exc |-> Raise("ConfigParseError",
                                          <<"Invalid timeout symbol: ", timeout_s>>),
                            val |-> 0]

\* parsed[key] inside the try block: KeyError when the key is absent
ReadItem(parsed, key) ==
    IF HasOption(parsed, key)
    THEN [exc |-> NoExc, val |-> GetItem(parsed, key)]
    ELSE [exc |-> Raise("KeyError", <<KeyRepr(key)>>), val |-> ""]

ReadFloat(parsed, key) ==
    IF HasOption(parsed, key)
    THEN _read_int_or_inf(GetItem(parsed, key))
    ELSE [exc |-> Raise("KeyError", <<KeyRepr(key)>>), val |-> Fin(0)]

\* parsed.getboolean(key): None when the key is absent (fallback=None)
GetBoolean(parsed, key) ==
    IF ~HasOption(parsed, key)
    THEN [exc |-> NoExc, val |-> "None"]
    ELSE LET v == GetItem(parsed, key)
         IN  IF v \in {"1", "yes", "true", "on"}
             THEN [exc |-> NoExc, val |-> "True"]
             ELSE IF v \in {"0", "no", "false", "off"}
                  THEN [exc |-> NoExc, val |-> "False"]
                  ELSE [exc |-> Raise("ValueError", <<"Not a boolean: ", v>>),
                        val |-> "None"]

\* parsed.getint(key): None when the key is absent (fallback=None)
GetInt(parsed, key) ==
    IF ~HasOption(parsed, key)
    THEN [exc |-> NoExc, val |-> PyNone]
    ELSE LET v == PyIntOf(GetItem(parsed, key))
         IN  IF v.ok
             THEN [exc |-> NoExc, val |-> PyInt(v.n)]
             ELSE [exc |-> InvalidLiteral(GetItem(parsed, key)), val |-> PyNone]

\* the value a failed parse leaves: there is no object
NoRange ==
    [name |-> "", min_range |-> Fin(0), max_range |-> Fin(0),
     enable_plus |-> "None", enable_minus |-> "None",
     plus_value |-> PyNone, minus_value |-> PyNone,
     day_max |-> Fin(0), timeout |-> 0]

\* lines 110-113: the handler of the try block turns KeyError, and only
\* KeyError, into ConfigParseError
HandleKeyError(parsed, exc) ==
    IF exc.type = "KeyError"
    THEN Raise("ConfigParseError",
               <<"Value of ", exc.msg[1], " not found for section ", parsed.name>>)
    ELSE exc

\* the first exception of the argument list of cls(...), in evaluation order
RECURSIVE FirstExc(_)
FirstExc(excs) ==
    IF excs = <<>>
    THEN NoExc
    ELSE IF Head(excs) # NoExc THEN Head(excs) ELSE FirstExc(Tail(excs))

\* lines 98-114: the fields read in the order of the argument list of
\* cls(...); the first that raises ends the call
KarmaRangeOf(parsed, timeout) ==
    Only({ Only({ IF exc # NoExc
                  THEN [exc |-> HandleKeyError(parsed, exc), obj |-> NoRange]
                  ELSE [exc |-> NoExc,
                        obj |-> [name |-> f.name.val,
                                 min_range |-> f.min_range.val,
                                 max_range |-> f.max_range.val,
                                 enable_plus |-> f.enable_plus.val,
                                 enable_minus |-> f.enable_minus.val,
                                 plus_value |-> f.plus_value.val,
                                 minus_value |-> f.minus_value.val,
                                 day_max |-> f.day_max.val,
                                 timeout |-> timeout]] :
                  exc \in { FirstExc(<<f.name.exc, f.min_range.exc, f.max_range.exc,
                                       f.enable_plus.exc, f.enable_minus.exc,
                                       f.plus_value.exc, f.minus_value.exc,
                                       f.day_max.exc>>) } }) :
           f \in { [name |-> ReadItem(parsed, "name"),
                    min_range |-> ReadFloat(parsed, "range_min"),
                    max_range |-> ReadFloat(parsed, "range_max"),
                    enable_plus |-> GetBoolean(parsed, "enable_plus"),
                    enable_minus |-> GetBoolean(parsed, "enable_minus"),
                    plus_value |-> GetInt(parsed, "plus_value"),
                    minus_value |-> GetInt(parsed, "minus_value"),
                    day_max |-> ReadFloat(parsed, "day_max")] } })

\* range_from_parsed_config (lines 76-114): the exception raised (NoExc
\* for none) and the KarmaRange returned
range_from_parsed_config(parsed) ==
    Only({ IF timeout.exc # NoExc
           THEN [exc |-> timeout.exc, obj |-> NoRange]
           ELSE KarmaRangeOf(parsed, timeout.val) :
           timeout \in { ParseTimeout(parsed) } })

\* KarmaRange.__lt__(self, other): other < self.min_range
KarmaRange__lt__(self, other) == FloatLt(other, self.min_range)

\* a slip in the inclusivity of the upper bound
KarmaRange__eq__strict(self, other) ==
    FloatLe(self.min_range, other) /\ FloatLt(other, self.max_range)

\* KarmaRange.__eq__(self, other): self.min_range <= other <= self.max_range
KarmaRange__eq__(self, other) ==
    FloatLe(self.min_range, other) /\ FloatLe(other, self.max_range)

\* --------------------------------------------------- skarma.utils.algo
\* binary_search(x, a): the index of an element equal to x in the sorted
\* list a, 0 for NotFound.  x is before a[mid] when a[mid].__lt__(x), within
\* it when a[mid].__eq__(x), after it otherwise.
RECURSIVE BinarySearchFrom(_, _, _, _)
BinarySearchFrom(x, a, lo, hi) ==
    IF lo > hi
    THEN 0
    ELSE LET mid == (lo + hi) \div 2
         IN  IF KarmaRange__eq__(a[mid], x)
             THEN mid
             ELSE IF KarmaRange__lt__(a[mid], x)
                  THEN BinarySearchFrom(x, a, lo, mid - 1)
                  ELSE BinarySearchFrom(x, a, mid + 1, hi)

binary_search(x, a) == BinarySearchFrom(x, a, 1, Len(a))

\* --------------------------------------------------- KarmaRangesManager
\* karma.conf: whether the file exists, its sections in file order (each
\* the options the section itself gives) and the options of DEFAULT.
SectionHeader(i) == "tier" \o ToString(i)

\* list.sort(key=attrgetter('min_range')): stable, ascending
RECURSIVE InsertSorted(_, _)
InsertSorted(sorted, x) ==
    IF sorted = <<>>
    THEN <<x>>
    ELSE IF FloatLt(x.min_range, sorted[Len(sorted)].min_range)
         THEN Append(InsertSorted(SubSeq(sorted, 1, Len(sorted) - 1), x),
                     sorted[Len(sorted)])
         ELSE Append(sorted, x)

RECURSIVE SortByMinRange(_)
SortByMinRange(list) ==
    IF list = <<>>
    THEN <<>>
    ELSE InsertSorted(SortByMinRange(SubSeq(list, 1, Len(list) - 1)), list[Len(list)])

\* the loop comparing with < where the code has <=
OverlapIndexStrict(list) ==
    IF \E i \in 2..Len(list) : FloatLt(list[i].min_range, list[i - 1].max_range)
    THEN CHOOSE i \in 2..Len(list) :
            /\ FloatLt(list[i].min_range, list[i - 1].max_range)
            /\ \A j \in 2..(i - 1) : ~FloatLt(list[j].min_range, list[j - 1].max_range)
    ELSE 0

\* the index the loop of _static_ranges_check returns at, 0 for None
OverlapIndex(list) ==
    IF \E i \in 2..Len(list) : FloatLe(list[i].min_range, list[i - 1].max_range)
    THEN CHOOSE i \in 2..Len(list) :
            /\ FloatLe(list[i].min_range, list[i - 1].max_range)
            /\ \A j \in 2..(i - 1) : ~FloatLe(list[j].min_range, list[j - 1].max_range)
    ELSE 0

\* the check naming the first tier of the list in place of the one before i
_static_ranges_check_first(list) ==
    Only({ IF i = 0 THEN <<>> ELSE <<list[i].name, list[1].name>> :
           i \in { OverlapIndex(list) } })

\* _static_ranges_check: <<>> for None, else the two names
_static_ranges_check(list) ==
    Only({ IF i = 0 THEN <<>> ELSE <<list[i].name, list[i - 1].name>> :
           i \in { OverlapIndex(list) } })

\* lines 154-155: append each parsed section to the list until one raises
RECURSIVE ParseSections(_, _, _)
ParseSections(cfg, i, acc) ==
    IF i > Len(cfg.sections)
    THEN [exc |-> NoExc, ranges |-> acc]
    ELSE Only({ IF r.exc # NoExc
                THEN [exc |-> r.exc, ranges |-> acc]
                ELSE ParseSections(cfg, i + 1, Append(acc, r.obj)) :
                r \in { range_from_parsed_config(
                            SectionProxy(SectionHeader(i), cfg.sections[i], cfg.default)) } })

\* lines 165: parse DEFAULT last, after the list was sorted and checked
InitDefault(cfg, sorted, old_default) ==
    Only({ IF default.exc # NoExc
           THEN [exc |-> default.exc, ranges |-> sorted,
                 default_range |-> old_default, step |-> "default"]
           ELSE [exc |-> NoExc, ranges |-> sorted,
                 default_range |-> <<default.obj>>, step |-> "done"] :
           default \in { range_from_parsed_config(
                             SectionProxy("DEFAULT", cfg.default, cfg.default)) } })

\* lines 159-163: the overlap check on the sorted list
InitCheck(cfg, sorted, old_default) ==
    Only({ IF res # <<>>
           THEN [exc |-> Raise("ConfigParseError",
                               <<"Ranges ", res[1], " and ", res[2], " overlap">>),
                 ranges |-> sorted, default_range |-> old_default, step |-> "overlap"]
           ELSE InitDefault(cfg, sorted, old_default) :
           res \in { _static_ranges_check(sorted) } })

\* line 157, once every section is parsed; a section that raised ends __init__
InitSort(cfg, parsed, old_default) ==
    IF parsed.exc # NoExc
    THEN [exc |-> parsed.exc, ranges |-> parsed.ranges,
          default_range |-> old_default, step |-> "parse"]
    ELSE Only({ InitCheck(cfg, sorted, old_default) :
                sorted \in { SortByMinRange(parsed.ranges) } })

\* __init__ (lines 135-165) on the class-level list old_ranges: the
\* exception raised (NoExc for none), ranges and default_range after it, and
\* the step it ended at
KarmaRangesManager__init__(cfg, old_ranges, old_default) ==
    IF ~cfg.isfile
    THEN [exc |-> Raise("FileNotFoundError", <<"Couldn't find karma config file path: ">>),
          ranges |-> old_ranges, default_range |-> old_default, step |-> "file"]
    ELSE Only({ InitSort(cfg, parsed, old_default) :
                parsed \in { ParseSections(cfg, 1, old_ranges) } })

\* a lookup that falls back to the first tier when none contains the karma
get_range_by_karma_fallback(list, karma_) ==
    Only({ IF pos = 0
           THEN IF list = <<>>
                THEN [exc |-> Raise("ConfigParseError",
                                    <<"No ranges contain karma: ", ToString(karma_)>>),
                      val |-> NoRange]
                ELSE [exc |-> NoExc, val |-> list[1]]
           ELSE [exc |-> NoExc, val |-> list[pos]] :
           pos \in { binary_search(Fin(karma_), list) } })

\* get_range_by_karma (lines 167-180): the exception raised and the value returned
get_range_by_karma(list, karma_) ==
    Only({ IF pos = 0
           THEN [exc |-> Raise("ConfigParseError",
                               <<"No ranges contain karma: ", ToString(karma_)>>),
                 val |-> NoRange]
           ELSE [exc |-> NoExc, val |-> list[pos]] :
           pos \in { binary_search(Fin(karma_), list) } })

\* ------------------------------------------------------------- inputs
Without(opts, K) == [k \in (DOMAIN opts) \ K |-> opts[k]]

BaseOpts ==
    [name |-> "base", range_min |-> <<"0">>, range_max |-> <<"0">>,
     enable_plus |-> "true", enable_minus |-> "yes",
     plus_value |-> <<"1">>, minus_value |-> <<"1">>,
     day_max |-> <<"o", "o">>, timeout |-> <<"2", "h">>]

EmptyOpts == Without(BaseOpts, Keys)

DefaultOpts ==
    [BaseOpts EXCEPT !.name = "default", !.range_min = <<"-", "o", "o">>,
                     !.range_max = <<"o", "o">>]

Tier(name, lo, hi) ==
    [BaseOpts EXCEPT !.name = name, !.range_min = lo, !.range_max = hi]

\* the sections a karma.conf of the model is made of
TierPool ==
    { Tier("toxic", <<"-", "o", "o">>, <<"-", "1", "0">>),
      Tier("neutral", <<"-", "9">>, <<"9">>),
      Tier("positive", <<"1", "0">>, <<"+", "o", "o">>),
      Tier("a", <<"0">>, <<"1", "0">>),
      Tier("b", <<"5">>, <<"1", "5">>),
      Tier("c", <<"2", "0">>, <<"o", "o">>),
      Tier("inv", <<"1", "5">>, <<"1", "2">>),
      [Tier("badunit", <<"0">>, <<"5">>) EXCEPT !.timeout = <<"5", "x">>],
      Without(Tier("noname", <<"0">>, <<"5">>), {"name"}) }

DefaultPool == {DefaultOpts, EmptyOpts}

NoFile == [isfile |-> FALSE, sections |-> <<>>, default |-> EmptyOpts]

\* the karma.conf files with n sections
ConfigsOfLen(n) ==
    { [isfile |-> TRUE, sections |-> s, default |-> d] :
        s \in [1..n -> TierPool], d \in DefaultPool }

KarmaValues == { 5 * k : k \in (0 - MaxKarma)..MaxKarma } \cup {-9, 9, 1000000000}

\* sections handed to range_from_parsed_config on its own
Magnitudes == { <<"2">>, <<"5">>, <<"1", "0">>, <<"-", "3">>, <<>>, <<"x">> }

TimeoutLiterals == { m \o <<u>> : m \in Magnitudes, u \in UnitSymbols \cup {"x", "5"} }

FullSections ==
    { [BaseOpts EXCEPT !.range_min = lo, !.range_max = hi, !.day_max = dm, !.timeout = t] :
        lo \in { <<"-", "o", "o">>, <<"0">>, <<"1", "0">> },
        hi \in { <<"0">>, <<"5">>, <<"o", "o">>, <<"+", "o", "o">> },
        dm \in { <<"o", "o">>, <<"7">>, <<"x">> },
        t \in TimeoutLiterals }

ParseInputs ==
    { SectionProxy("tier1", Without(full, K), d) :
        full \in FullSections,
        K \in { K \in SUBSET Keys : Cardinality(K) <= MaxMissing },
        d \in DefaultPool }

\* -------------------------------------------------------------- state
VARIABLES
    ranges,         \* KarmaRangesManager.ranges, the class attribute
    default_range,  \* KarmaRangesManager.default_range: <<>> while unset
    instance,       \* whether the singleton instance exists
    exc,            \* the exception the last operation raised, NoExc for none
    op,             \* the last operation: "none", "init", "lookup", "parse"
    karma,          \* the argument of the last get_range_by_karma
    result,         \* what the last get_range_by_karma returned
    init_step,      \* where the last __init__ ended: "file", "parse", "overlap", "default", "done"
    parsed,         \* the section handed to range_from_parsed_config
    parse_out,      \* what range_from_parsed_config gave for it
    pc,             \* the position of __main__ in main.py
    DEBUG_MODE,     \* result.debug
    handlers,       \* the handlers added to the dispatcher, in order
    ann_thread,     \* whether the announcements thread was started
    polling         \* whether updater.start_polling() was called

vars == <<ranges, default_range, instance, exc, op, karma, result, init_step,
          parsed, parse_out, pc, DEBUG_MODE, handlers, ann_thread, polling>>

registry_vars == <<ranges, default_range, instance, exc, op, karma, result, init_step>>
parse_vars == <<parsed, parse_out>>
main_vars == <<pc, DEBUG_MODE, handlers, ann_thread, polling>>

NoParse == [exc |-> NoExc, obj |-> NoRange]

RegistryInit ==
    /\ ranges = <<>>
    /\ default_range = <<>>
    /\ instance = FALSE
    /\ exc = NoExc
    /\ op = "none"
    /\ karma = 0
    /\ result = NoRange
    /\ init_step = "none"

MainInit ==
    /\ DEBUG_MODE = FALSE
    /\ handlers = <<>>
    /\ ann_thread = FALSE
    /\ polling = FALSE

\* the module imported by a client: __main__ does not run
Init ==
    /\ RegistryInit
    /\ MainInit
    /\ pc = "imported"
    /\ parsed = SectionProxy("tier1", BaseOpts, EmptyOpts)
    /\ parse_out = NoParse

\* ------------------------------------------------- KarmaRangesManager()
\* SingletonMeta.__call__ runs __init__ only while no instance is stored,
\* and stores the instance only when __init__ returns.
SingletonMeta__call__runs_init == ~instance

\* KarmaRangesManager() reading cfg
Construct(cfg) ==
    /\ SingletonMeta__call__runs_init
    /\ \E r \in { KarmaRangesManager__init__(cfg, ranges, default_range) } :
           /\ ranges' = r.ranges
           /\ default_range' = r.default_range
           /\ exc' = r.exc
           /\ instance' = (r.exc = NoExc)
           /\ init_step' = r.step
    /\ op' = "init"
    /\ UNCHANGED <<karma, result>>

\* a lookup that takes the tier it found out of the list
LookupRemoving(karma_) ==
    /\ instance
    /\ \E r \in { get_range_by_karma(ranges, karma_) } :
           /\ exc' = r.exc
           /\ result' = r.val
           /\ ranges' = IF r.exc = NoExc
                        THEN SelectSeq(ranges, LAMBDA t : t # r.val)
                        ELSE ranges
    /\ karma' = karma_
    /\ op' = "lookup"
    /\ UNCHANGED <<default_range, instance, init_step>>

\* instance.get_range_by_karma(karma_)
Lookup(karma_) ==
    /\ instance
    /\ \E r \in { get_range_by_karma(ranges, karma_) } :
           /\ exc' = r.exc
           /\ result' = r.val
    /\ karma' = karma_
    /\ op' = "lookup"
    /\ UNCHANGED <<ranges, default_range, instance, init_step>>

\* a client may catch the exception of a failed KarmaRangesManager() and call
\* it again, karma.conf edited or not; the list is kept within MaxRanges
Next ==
    \/ /\ ~instance
       /\ \E n \in 0..MaxSections :
            /\ Len(ranges) + n <= MaxRanges
            /\ \E cfg \in ConfigsOfLen(n) : Construct(cfg)
       /\ UNCHANGED <<parse_vars, main_vars>>
    \/ Construct(NoFile) /\ UNCHANGED <<parse_vars, main_vars>>
    \/ \E k \in KarmaValues : Lookup(k) /\ UNCHANGED <<parse_vars, main_vars>>

Spec == Init /\ [][Next]_vars

\* ------------------------------------ range_from_parsed_config on its own
ParseInit ==
    /\ RegistryInit
    /\ MainInit
    /\ pc = "imported"
    /\ parsed \in ParseInputs
    /\ parse_out = NoParse

Parse ==
    /\ op = "none"
    /\ parse_out' = range_from_parsed_config(parsed)
    /\ op' = "parse"
    /\ UNCHANGED <<ranges, default_range, instance, exc, karma, result, init_step,
                   parsed, main_vars>>

ParseNext == Parse

ParseSpec == ParseInit /\ [][ParseNext]_vars

\* ------------------------------------------------------ main.py __main__
\* Each step is a stretch of the script that runs to its end or raises; an
\* exception nothing catches ends the process.
MainStart ==
    /\ RegistryInit
    /\ MainInit
    /\ pc = "start"
    /\ parsed = SectionProxy("tier1", BaseOpts, EmptyOpts)
    /\ parse_out = NoParse

\* lines 132-141: setup_logging_ui(), the loggers, AppInfo()
SetupLogging ==
    /\ pc = "start"
    /\ pc' = "app_info"
    /\ UNCHANGED <<registry_vars, parse_vars, DEBUG_MODE, handlers, ann_thread, polling>>

\* a start that goes on although KarmaRangesManager() raised
StaticCheckIgnoringFailure(cfg) ==
    /\ pc = "app_info"
    /\ Construct(cfg)
    /\ pc' = "ranges"
    /\ UNCHANGED <<parse_vars, DEBUG_MODE, handlers, ann_thread, polling>>

\* line 143: KarmaRangesManager()  # static check for overlap
StaticCheck(cfg) ==
    /\ pc = "app_info"
    /\ Construct(cfg)
    /\ pc' = IF exc' = NoExc THEN "ranges" ELSE "terminated"
    /\ UNCHANGED <<parse_vars, DEBUG_MODE, handlers, ann_thread, polling>>

\* lines 145-160: the arguments and the token
ParseArgs(debug) ==
    /\ pc = "ranges"
    /\ DEBUG_MODE' = debug
    /\ pc' = "args"
    /\ UNCHANGED <<registry_vars, parse_vars, handlers, ann_thread, polling>>

\* lines 162-164: Updater and its dispatcher
CreateUpdater ==
    /\ pc = "args"
    /\ pc' = "updater"
    /\ UNCHANGED <<registry_vars, parse_vars, DEBUG_MODE, handlers, ann_thread, polling>>

DebugOnly(names) == IF DEBUG_MODE THEN names ELSE <<>>

\* lines 166-225: dispatcher.add_handler, in order
AddHandlers ==
    /\ pc = "updater"
    /\ handlers' = <<"version">> \o DebugOnly(<<"status">>)
                   \o <<"bug_report", "support", "my_karma", "start", "top", "antitop">>
                   \o DebugOnly(<<"gen_error">>)
                   \o <<"level", "help", "donate", "successful_payment">>
                   \o DebugOnly(<<"clear_errors">>)
                   \o DebugOnly(<<"chat_id">>)
                   \o <<"message_handler", "handle_group_migration_or_join">>
    /\ pc' = "handlers"
    /\ UNCHANGED <<registry_vars, parse_vars, DEBUG_MODE, ann_thread, polling>>

\* lines 227-229: the announcements thread
StartAnnouncements ==
    /\ pc = "handlers"
    /\ ann_thread' = TRUE
    /\ pc' = "announcements"
    /\ UNCHANGED <<registry_vars, parse_vars, DEBUG_MODE, handlers, polling>>

\* lines 231-232: updater.start_polling()
StartPolling ==
    /\ pc = "announcements"
    /\ polling' = TRUE
    /\ pc' = "polling"
    /\ UNCHANGED <<registry_vars, parse_vars, DEBUG_MODE, handlers, ann_thread>>

MainNext ==
    \/ SetupLogging
    \/ \E n \in 0..MaxSections : \E cfg \in ConfigsOfLen(n) : StaticCheck(cfg)
    \/ StaticCheck(NoFile)
    \/ \E debug \in BOOLEAN : ParseArgs(debug)
    \/ CreateUpdater
    \/ AddHandlers
    \/ StartAnnouncements
    \/ StartPolling

MainSpec == MainStart /\ [][MainNext]_vars

\* ---------------------------------------------------------- properties
\* karma lies in the closed interval of tier t
InInterval(t, k) ==
    /\ t.min_range.inf < 0 \/ (t.min_range.inf = 0 /\ t.min_range.n <= k)
    /\ t.max_range.inf > 0 \/ (t.max_range.inf = 0 /\ k <= t.max_range.n)

NotFoundError(k) == Raise("ConfigParseError", <<"No ranges contain karma: ", ToString(k)>>)

OverlapError(n1, n2) == Raise("ConfigParseError", <<"Ranges ", n1, " and ", n2, " overlap">>)

\* C1: on a built registry, get_range_by_karma(v) returns tier T of ranges
\* exactly when T.min_range <= v <= T.max_range, bounds included, infinite
\* bounds included.
C1_LookupIffInInterval ==
    (op = "lookup") =>
        \A i \in 1..Len(ranges) :
            (exc = NoExc /\ result = ranges[i]) <=> InInterval(ranges[i], karma)

\* C1 witness: with toxic [-oo,-10], neutral [-9,9], positive [10,+oo],
\* get_range_by_karma(-10) returned toxic, the tier whose upper bound it is.
C1_Witness ==
    /\ op = "lookup"
    /\ exc = NoExc
    /\ Len(ranges) = 3
    /\ karma = -10
    /\ result.name = "toxic"
    /\ result.min_range = NegInf
    /\ result.max_range = Fin(karma)

\* C2: in a built registry the closed intervals of any two tiers of ranges
\* share no value.
C2_TiersDisjoint ==
    instance =>
        \A i, j \in 1..Len(ranges) :
            i # j =>
                ~(/\ FloatLe(ranges[i].min_range, ranges[i].max_range)
                  /\ FloatLe(ranges[j].min_range, ranges[j].max_range)
                  /\ FloatLe(ranges[i].min_range, ranges[j].max_range)
                  /\ FloatLe(ranges[j].min_range, ranges[i].max_range))

\* C2 witness: a registry built with three tiers, so with a pair of tiers
\* that are not neighbours in the sorted list.
C2_Witness ==
    /\ instance
    /\ Len(ranges) = 3
    /\ \A i \in 1..3 : FloatLe(ranges[i].min_range, ranges[i].max_range)

\* C3: after a construction that failed, ranges holds none of the tiers the
\* failed attempt parsed: a later attempt starts from an empty list.
C3_FailedInitLeavesNoTiers ==
    (op = "init" /\ exc # NoExc) => ranges = <<>>

\* C4: a get_range_by_karma(v) with v in no tier's interval raises the
\* not-found error, returns nothing, and leaves ranges and default_range as
\* they were.
C4_GapRaisesNotFound ==
    [][ (op' = "lookup" /\ \A i \in 1..Len(ranges) : ~InInterval(ranges[i], karma'))
        => /\ exc' = NotFoundError(karma')
           /\ result' = NoRange
           /\ ranges' = ranges
           /\ default_range' = default_range ]_vars

\* C4 witness: with a [0,10] and c [20,oo], get_range_by_karma(15) raised.
C4_Witness ==
    /\ op = "lookup"
    /\ karma = 15
    /\ Len(ranges) = 2
    /\ ranges[1].name = "a"
    /\ ranges[2].name = "c"
    /\ exc = NotFoundError(15)
    /\ Len(default_range) = 1

\* C5: every KarmaRange that range_from_parsed_config returns has
\* min_range <= max_range.
C5_ParsedRangeIsOrdered ==
    (op = "parse" /\ parse_out.exc = NoExc) =>
        FloatLe(parse_out.obj.min_range, parse_out.obj.max_range)

\* the values a section gives are well formed: only absence can make it fail
WellFormed(section) ==
    /\ HasOption(section, "timeout") => ParseTimeout(section).exc = NoExc
    /\ \A k \in {"range_min", "range_max", "day_max"} :
          HasOption(section, k) => _read_int_or_inf(GetItem(section, k)).exc = NoExc

\* C6: parsing a section in which exactly one of the nine keys is absent,
\* every other value well formed, raises the missing-field ConfigParseError
\* naming that key and the section.
C6_MissingKeyRaisesConfigParseError ==
    \A key \in Keys :
        (/\ op = "parse"
         /\ Keys \ ((DOMAIN parsed.opts) \cup (DOMAIN parsed.defaults)) = {key}
         /\ WellFormed(parsed))
        => parse_out.exc = Raise("ConfigParseError",
                                 <<"Value of ", KeyRepr(key), " not found for section ",
                                   parsed.name>>)

\* C7: once every section is parsed and the list sorted by min_range, the
\* construction fails with the overlap error of the first index i with
\* ranges[i].min_range <= ranges[i-1].max_range, naming ranges[i] and
\* ranges[i-1].
C7_FirstOverlapIsReported ==
    (op = "init" /\ init_step \in {"overlap", "default", "done"}) =>
        /\ \A i \in 2..Len(ranges) :
              FloatLe(ranges[i - 1].min_range, ranges[i].min_range)
        /\ \A i \in 2..Len(ranges) :
              (/\ FloatLe(ranges[i].min_range, ranges[i - 1].max_range)
               /\ \A j \in 2..(i - 1) :
                     ~FloatLe(ranges[j].min_range, ranges[j - 1].max_range))
              => exc = OverlapError(ranges[i].name, ranges[i - 1].name)

\* C7 witness: a [0,10] and b [5,15] failed with the overlap error naming
\* b and a.
C7_Witness ==
    /\ op = "init"
    /\ Len(ranges) = 2
    /\ ranges[1].name = "a" /\ ranges[1].max_range = Fin(10)
    /\ ranges[2].name = "b" /\ ranges[2].min_range = Fin(5)
    /\ exc = OverlapError("b", "a")
    /\ ~instance

C9_RegistryBeforeHandlers ==
    /\ (handlers # <<>> \/ ann_thread \/ polling
        \/ pc \in {"ranges", "args", "updater", "handlers", "announcements", "polling"})
       => (instance /\ op = "init" /\ exc = NoExc /\ init_step = "done")
    /\ (op = "init" /\ exc # NoExc)
       => (pc = "terminated" /\ handlers = <<>> /\ ~ann_thread /\ ~polling)

\* C9 witness: polling started, on a registry of three tiers.
C9_Witness ==
    /\ pc = "polling"
    /\ polling
    /\ ann_thread
    /\ Len(handlers) > 0
    /\ instance
    /\ Len(ranges) = 3

\* C10: a timeout literal of an integer n and one unit character parses to
\* n seconds, minutes, hours, days or weeks for s, m, h, d, w, and raises the
\* invalid-timeout-symbol ConfigParseError for any other last character.
C10_TimeoutLiteral ==
    (op = "parse" /\ "timeout" \in DOMAIN parsed.opts) =>
        LET t == parsed.opts["timeout"]
            n == PyIntOf(SubSeq(t, 1, Len(t) - 1))
            unit == t[Len(t)]
        IN  (Len(t) >= 2 /\ n.ok) =>
                /\ unit = "s" /\ parse_out.exc = NoExc => parse_out.obj.timeout = n.n
                /\ unit = "m" /\ parse_out.exc = NoExc => parse_out.obj.timeout = n.n * 60
                /\ unit = "h" /\ parse_out.exc = NoExc => parse_out.obj.timeout = n.n * 3600
                /\ unit = "d" /\ parse_out.exc = NoExc => parse_out.obj.timeout = n.n * 86400
                /\ unit = "w" /\ parse_out.exc = NoExc => parse_out.obj.timeout = n.n * 604800
                /\ unit \in {"s", "m", "h", "d", "w"}
                   => parse_out.exc # Raise("ConfigParseError",
                                            <<"Invalid timeout symbol: ", unit>>)
                /\ unit \notin {"s", "m", "h", "d", "w"}
                   => parse_out.exc = Raise("ConfigParseError",
                                            <<"Invalid timeout symbol: ", unit>>)

\* C10 witness: the section with timeout "2h" parsed to a KarmaRange of 7200 s.
C10_Witness ==
    /\ op = "parse"
    /\ "timeout" \in DOMAIN parsed.opts
    /\ parsed.opts["timeout"] = <<"2", "h">>
    /\ parse_out.exc = NoExc
    /\ parse_out.obj.timeout = 7200

=============================================================================
